---- MODULE Spec2Model ----
(***************************************************************************)
(* DolphinAdapter (emulator_adapter/adapters/dolphin_adapter.py): the      *)
(* connection lifecycle and the translation of InputEvent values into      *)
(* calls on a vgamepad VDS4Gamepad.                                        *)
(*                                                                         *)
(* Python values are encoded as integers: None is the sentinel None, True  *)
(* is 1 and False is 0, so that Python truthiness (`if not x`, `x or y`)   *)
(* is one operator, Truthy.  Strings are tuples of one-character strings,  *)
(* so that str.upper() is computed character by character.  A float v is   *)
(* carried as the integer numerator of v = n / Denom.                      *)
(***************************************************************************)
EXTENDS Integers, Sequences, FiniteSets, TLC

\* ------------------------------------------------------------------------
\* Bounds of the model
\* ------------------------------------------------------------------------
\* number of device handles the driver hands out in one run
MaxHandles == 2
\* longest delay of a deferred release, in ticks
MaxDuration == 2
\* axis values are the fractions n / Denom, n in -Denom .. Denom
Denom == 4

\* ------------------------------------------------------------------------
\* Python values
\* ------------------------------------------------------------------------
None == -1000

Truthy(v) == v # None /\ v # 0

\* rounding down instead of toward zero
IntTrunc_floor(num, den) == num \div den

\* int(): truncation toward zero of the fraction num / den, den > 0
IntTrunc(num, den) == IF num >= 0 THEN num \div den ELSE -((-num) \div den)

\* int((v or 0.0) * 255) for the float v = n / Denom
Scale(n) == IntTrunc((IF Truthy(n) THEN n ELSE 0) * 255, Denom)

Lowers == << "a", "b", "c", "d", "e", "f", "g", "h", "i", "j", "k", "l", "m",
             "n", "o", "p", "q", "r", "s", "t", "u", "v", "w", "x", "y", "z" >>
Uppers == << "A", "B", "C", "D", "E", "F", "G", "H", "I", "J", "K", "L", "M",
             "N", "O", "P", "Q", "R", "S", "T", "U", "V", "W", "X", "Y", "Z" >>

\* the upper-case letter of each lower-case letter
ToUpper ==
    [c \in {Lowers[i] : i \in DOMAIN Lowers} |->
        Uppers[CHOOSE i \in DOMAIN Lowers : Lowers[i] = c]]

UpperChar(c) == IF c \in DOMAIN ToUpper THEN ToUpper[c] ELSE c

\* the control name used as it was given
Upper_omitted(s) == s

\* str.upper()
Upper(s) == [i \in DOMAIN s |-> UpperChar(s[i])]

\* dict.get(k): the value, or None when the key is absent
Get(m, k) == IF k \in DOMAIN m THEN m[k] ELSE None

\* ------------------------------------------------------------------------
\* vgamepad enumerations (vigem_commons: DS4_BUTTONS, DS4_DPAD_DIRECTIONS)
\* ------------------------------------------------------------------------
\* DS4_BUTTONS is an IntFlag of single bits; DS4_DPAD_DIRECTIONS is an
\* IntEnum of the hat-switch positions, NORTH = 0 clockwise to NORTHWEST = 7
\* and NONE = 8.  A member is as true as its integer value.
DS4_BUTTON_CROSS == 32
DS4_BUTTON_CIRCLE == 64
DS4_BUTTON_SQUARE == 16
DS4_BUTTON_TRIANGLE == 128
DS4_BUTTON_OPTIONS == 8192
DS4_BUTTON_SHARE == 4096
DS4_BUTTON_SHOULDER_LEFT == 256
DS4_BUTTON_SHOULDER_RIGHT == 512
DS4_BUTTON_THUMB_LEFT == 16384
DS4_BUTTON_THUMB_RIGHT == 32768

DS4_BUTTON_DPAD_NONE == 8
DS4_BUTTON_DPAD_WEST == 6
DS4_BUTTON_DPAD_SOUTH == 4
DS4_BUTTON_DPAD_EAST == 2
DS4_BUTTON_DPAD_NORTH == 0

\* ------------------------------------------------------------------------
\* Control names
\* ------------------------------------------------------------------------
CROSS == << "C", "R", "O", "S", "S" >>
CIRCLE == << "C", "I", "R", "C", "L", "E" >>
SQUARE == << "S", "Q", "U", "A", "R", "E" >>
TRIANGLE == << "T", "R", "I", "A", "N", "G", "L", "E" >>
OPTIONS == << "O", "P", "T", "I", "O", "N", "S" >>
SHARE == << "S", "H", "A", "R", "E" >>
L1 == << "L", "1" >>
R1 == << "R", "1" >>
L3 == << "L", "3" >>
R3 == << "R", "3" >>
DPAD_UP == << "D", "P", "A", "D", "_", "U", "P" >>
DPAD_DOWN == << "D", "P", "A", "D", "_", "D", "O", "W", "N" >>
DPAD_LEFT == << "D", "P", "A", "D", "_", "L", "E", "F", "T" >>
DPAD_RIGHT == << "D", "P", "A", "D", "_", "R", "I", "G", "H", "T" >>
L2 == << "L", "2" >>
R2 == << "R", "2" >>
LEFT_STICK == << "L", "E", "F", "T", "_", "S", "T", "I", "C", "K" >>
RIGHT_STICK == << "R", "I", "G", "H", "T", "_", "S", "T", "I", "C", "K" >>

\* ------------------------------------------------------------------------
\* Lookup tables built by __init__
\* ------------------------------------------------------------------------
button_map ==
    (CROSS :> DS4_BUTTON_CROSS) @@ (CIRCLE :> DS4_BUTTON_CIRCLE) @@
    (SQUARE :> DS4_BUTTON_SQUARE) @@ (TRIANGLE :> DS4_BUTTON_TRIANGLE) @@
    (OPTIONS :> DS4_BUTTON_OPTIONS) @@ (SHARE :> DS4_BUTTON_SHARE) @@
    (L1 :> DS4_BUTTON_SHOULDER_LEFT) @@ (R1 :> DS4_BUTTON_SHOULDER_RIGHT) @@
    (L3 :> DS4_BUTTON_THUMB_LEFT) @@ (R3 :> DS4_BUTTON_THUMB_RIGHT)

dpad_map ==
    (DPAD_UP :> DS4_BUTTON_DPAD_NORTH) @@ (DPAD_DOWN :> DS4_BUTTON_DPAD_SOUTH) @@
    (DPAD_LEFT :> DS4_BUTTON_DPAD_WEST) @@ (DPAD_RIGHT :> DS4_BUTTON_DPAD_EAST)

trigger_map == (L2 :> "left_trigger") @@ (R2 :> "right_trigger")

stick_map == (LEFT_STICK :> "left_joystick") @@ (RIGHT_STICK :> "right_joystick")

\* ------------------------------------------------------------------------
\* Errors raised by the adapter (exception type and message prefix)
\* ------------------------------------------------------------------------
NoError == "None"
ConnectionError == "RuntimeError: Failed to create virtual gamepad"
NotConnectedError == "RuntimeError: Not connected. Call connect() first."
InvalidButton == "ValueError: Invalid button"
InvalidStick == "ValueError: Invalid stick"
InvalidTrigger == "ValueError: Invalid trigger"
InvalidDpad == "ValueError: Invalid D-pad direction"
UnknownEventKindError == "ValueError: Unknown input type"

InvalidControlError == {InvalidButton, InvalidStick, InvalidTrigger, InvalidDpad}

\* ------------------------------------------------------------------------
\* Outcome of a piece of code: the driver calls it issued, in order, the
\* exception that ended it (NoError when it returned), and the send_input
\* invocations it contains, each with the number of calls issued before it
\* ------------------------------------------------------------------------
\* one call on the driver: the method, the handle it is called on, its
\* arguments, and the adapter's connected flag at the moment of the call
Call(op, h, a, b, c) == [op |-> op, h |-> h, a |-> a, b |-> b, conn |-> c]

Returns(cs) == [calls |-> cs, err |-> NoError, sent |-> << >>]

Raises(cs, x) == [calls |-> cs, err |-> x, sent |-> << >>]

\* r1; r2 -- r2 does not run when r1 raised
Then(r1, r2) ==
    IF r1.err # NoError THEN r1
    ELSE [calls |-> r1.calls \o r2.calls,
          err |-> r2.err,
          sent |-> r1.sent \o
                   [i \in DOMAIN r2.sent |->
                       [r2.sent[i] EXCEPT !.at = @ + Len(r1.calls)]]]

\* r as the outcome of one invocation of send_input with this event
Invoked(event, kwargs, r) ==
    [r EXCEPT !.sent = << [event |-> event, kwargs |-> kwargs, at |-> 0] >> \o @]

\* ------------------------------------------------------------------------
\* InputEvent and the deferred-release descriptor (kwargs)
\* ------------------------------------------------------------------------
InputEvent(t, ctl, vx, vy, p) ==
    [type |-> t, control |-> ctl, value_x |-> vx, value_y |-> vy, pressed |-> p]

\* kwargs: <<>> when no input_callback_dict is passed, else the one dict
NoKwargs == << >>

CallbackDict(d, r) == << [input_duration |-> d, input_release_event |-> r] >>

\* ------------------------------------------------------------------------
\* send_input and its handlers, for an adapter whose fields are
\* gamepad = g and connected = c
\* ------------------------------------------------------------------------
\* the guard with a `not` dropped and `and` for `or`
NotConnected_and(c, g) == c /\ ~Truthy(g)

\* the guard testing the handle alone
NotConnected_handleOnly(c, g) == ~Truthy(g)

NotConnected(c, g) == ~c \/ ~Truthy(g)

\* the lookup result never rejected
ButtonFound_always(btn) == TRUE

ButtonFound(btn) == Truthy(btn)

handle_button(g, c, e) ==
    LET btn == Get(button_map, Upper(e.control))
    IN  IF ~ButtonFound(btn) THEN Raises(<< >>, InvalidButton)
        ELSE Returns(<< IF Truthy(e.pressed)
                        THEN Call("press_button", g, btn, None, c)
                        ELSE Call("release_button", g, btn, None, c),
                        Call("update", g, None, None, c) >>)

\* the two trigger calls exchanged
handle_trigger_swapped(g, c, e) ==
    IF Upper(e.control) \notin DOMAIN trigger_map
    THEN Raises(<< >>, InvalidTrigger)
    ELSE LET value == Scale(e.value_x)
         IN  Returns(<< IF Upper(e.control) = L2
                        THEN Call("right_trigger", g, value, None, c)
                        ELSE Call("left_trigger", g, value, None, c),
                        Call("update", g, None, None, c) >>)

handle_trigger(g, c, e) ==
    IF Upper(e.control) \notin DOMAIN trigger_map
    THEN Raises(<< >>, InvalidTrigger)
    ELSE LET value == Scale(e.value_x)
         IN  Returns(<< IF Upper(e.control) = L2
                        THEN Call("left_trigger", g, value, None, c)
                        ELSE Call("right_trigger", g, value, None, c),
                        Call("update", g, None, None, c) >>)

DirectionFound(direction) == Truthy(direction)

handle_dpad(g, c, e) ==
    LET direction == Get(dpad_map, Upper(e.control))
    IN  IF ~DirectionFound(direction) THEN Raises(<< >>, InvalidDpad)
        ELSE Returns(<< IF Truthy(e.pressed)
                        THEN Call("directional_pad", g, direction, None, c)
                        ELSE Call("directional_pad", g, DS4_BUTTON_DPAD_NONE, None, c),
                        Call("update", g, None, None, c) >>)

RECURSIVE send_input(_, _, _, _)

\* the release sent before the delay
handle_input_callback_early(g, c, e, kwargs) ==
    IF kwargs # NoKwargs
    THEN Then(send_input(g, c, kwargs[1].input_release_event, NoKwargs),
              Returns(<< Call("sleep", None, kwargs[1].input_duration, None, c) >>))
    ELSE Returns(<< >>)

\* an exception of the release caught and dropped
handle_input_callback_swallow(g, c, e, kwargs) ==
    IF kwargs # NoKwargs
    THEN LET r == Then(Returns(<< Call("sleep", None, kwargs[1].input_duration, None, c) >>),
                       send_input(g, c, kwargs[1].input_release_event, NoKwargs))
         IN  [r EXCEPT !.err = NoError]
    ELSE Returns(<< >>)

\* the release sent a second time
handle_input_callback_resend(g, c, e, kwargs) ==
    IF kwargs # NoKwargs
    THEN Then(Then(Returns(<< Call("sleep", None, kwargs[1].input_duration, None, c) >>),
                   send_input(g, c, kwargs[1].input_release_event, NoKwargs)),
              send_input(g, c, kwargs[1].input_release_event, NoKwargs))
    ELSE Returns(<< >>)

\* time.sleep(input_duration), then send_input(input_release_event) without
\* kwargs
handle_input_callback(g, c, e, kwargs) ==
    IF kwargs # NoKwargs
    THEN Then(Returns(<< Call("sleep", None, kwargs[1].input_duration, None, c) >>),
              send_input(g, c, kwargs[1].input_release_event, NoKwargs))
    ELSE Returns(<< >>)

handle_stick(g, c, e, kwargs) ==
    IF Upper(e.control) \notin DOMAIN stick_map
    THEN Raises(<< >>, InvalidStick)
    ELSE LET x == Scale(e.value_x)
             y == Scale(e.value_y)
             moved == Returns(<< IF Upper(e.control) = LEFT_STICK
                                 THEN Call("left_joystick", g, x, y, c)
                                 ELSE Call("right_joystick", g, x, y, c),
                                 Call("update", g, None, None, c) >>)
         IN  IF kwargs # NoKwargs
             THEN Then(moved, handle_input_callback(g, c, e, kwargs))
             ELSE moved

\* an event of no recognized type accepted and ignored
unknown_type_ignored(event) == Returns(<< >>)

\* the else branch of the dispatch on event.type
unknown_type(event) == Raises(<< >>, UnknownEventKindError)

send_input(g, c, event, kwargs) ==
    Invoked(event, kwargs,
        IF NotConnected(c, g) THEN Raises(<< >>, NotConnectedError)
        ELSE CASE event.type = "BUTTON" -> handle_button(g, c, event)
               [] event.type = "STICK" -> handle_stick(g, c, event, kwargs)
               [] event.type = "TRIGGER" -> handle_trigger(g, c, event)
               [] event.type = "DPAD" -> handle_dpad(g, c, event)
               [] OTHER -> unknown_type(event))

\* ------------------------------------------------------------------------
\* disconnect: the calls it issues and the value it leaves in connected
\* ------------------------------------------------------------------------
\* connected cleared before the gamepad is reset
disconnect_clearFirst(g, c) ==
    IF c
    THEN [calls |-> IF Truthy(g)
                    THEN << Call("reset", g, None, None, FALSE),
                            Call("update", g, None, None, FALSE) >>
                    ELSE << >>,
          connected |-> FALSE,
          gamepad |-> g]
    ELSE [calls |-> << >>, connected |-> c, gamepad |-> g]

\* the reset made whether connected or not
disconnect_unguarded(g, c) ==
    [calls |-> IF Truthy(g)
               THEN << Call("reset", g, None, None, c),
                       Call("update", g, None, None, c) >>
               ELSE << >>,
     connected |-> FALSE,
     gamepad |-> g]

disconnect(g, c) ==
    IF c
    THEN [calls |-> IF Truthy(g)
                    THEN << Call("reset", g, None, None, c),
                            Call("update", g, None, None, c) >>
                    ELSE << >>,
          connected |-> FALSE,
          gamepad |-> g]
    ELSE [calls |-> << >>, connected |-> c, gamepad |-> g]

\* ------------------------------------------------------------------------
\* connect: acquired is what vg.VDS4Gamepad() gave, a new handle, or None
\* when it raised
\* ------------------------------------------------------------------------
\* a handle already stored is kept
connect_keep(g, c, acquired) ==
    IF acquired # None
    THEN [gamepad |-> IF Truthy(g) THEN g ELSE acquired, connected |-> TRUE,
          err |-> NoError]
    ELSE [gamepad |-> g, connected |-> c, err |-> ConnectionError]

connect(g, c, acquired) ==
    IF acquired # None
    THEN [gamepad |-> acquired, connected |-> TRUE, err |-> NoError]
    ELSE [gamepad |-> g, connected |-> c, err |-> ConnectionError]

\* ------------------------------------------------------------------------
\* Inputs of the model
\* ------------------------------------------------------------------------
LowerChar(c) ==
    IF \E i \in DOMAIN Uppers : Uppers[i] = c
    THEN Lowers[CHOOSE i \in DOMAIN Uppers : Uppers[i] = c]
    ELSE c

Lower(s) == [i \in DOMAIN s |-> LowerChar(s[i])]

\* s with the characters at the odd positions in lower case
Mixed(s) == [i \in DOMAIN s |-> IF i % 2 = 1 THEN LowerChar(s[i]) ELSE s[i]]

\* the spellings of a table key the model sends
Spellings(k) == {k, Lower(k), Mixed(k)}

UP == << "U", "P" >>
LEFT == << "L", "E", "F", "T" >>
INVALID == << "I", "N", "V", "A", "L", "I", "D" >>
EMPTY == << >>

\* names that belong to another kind's table, or to none
Foreign == {UP, LEFT, INVALID, EMPTY, L3, Lower(L2), Mixed(CROSS), DPAD_UP}

ControlsOf(m) == UNION {Spellings(k) : k \in DOMAIN m} \cup Foreign

Pressed == {1, 0, None}

Values == {None, -3, 0, 2, Denom}

ButtonEvents ==
    {InputEvent("BUTTON", ctl, None, None, p) :
        ctl \in ControlsOf(button_map), p \in Pressed}

DpadEvents ==
    {InputEvent("DPAD", ctl, None, None, p) :
        ctl \in ControlsOf(dpad_map), p \in Pressed}

StickEvents ==
    {InputEvent("STICK", ctl, vx, vy, None) :
        ctl \in ControlsOf(stick_map), vx \in Values, vy \in Values}

TriggerEvents ==
    {InputEvent("TRIGGER", ctl, vx, None, None) :
        ctl \in ControlsOf(trigger_map), vx \in Values}

UnknownEvents ==
    {InputEvent(t, ctl, None, None, None) :
        t \in {"UNKNOWN", "button"}, ctl \in {CROSS, INVALID}}

Events == ButtonEvents \cup DpadEvents \cup StickEvents \cup TriggerEvents
              \cup UnknownEvents

\* the release events of the descriptors the model passes
ReleaseEvents ==
    {InputEvent("STICK", LEFT_STICK, 0, 0, None),
     InputEvent("STICK", LEFT, 0, 0, None),
     InputEvent("BUTTON", Lower(CROSS), None, None, 0),
     InputEvent("UNKNOWN", INVALID, None, None, None)}

Descriptors ==
    {CallbackDict(d, r) : d \in 1 .. MaxDuration, r \in ReleaseEvents}

\* the events the model sends together with a descriptor
DescribedEvents ==
    {InputEvent("STICK", LEFT_STICK, 2, -3, None),
     InputEvent("STICK", Lower(RIGHT_STICK), Denom, None, None),
     InputEvent("STICK", INVALID, 2, 2, None),
     InputEvent("BUTTON", CROSS, None, None, 1),
     InputEvent("TRIGGER", R2, Denom, None, None),
     InputEvent("DPAD", DPAD_DOWN, None, None, 1),
     InputEvent("UNKNOWN", INVALID, None, None, None)}

NoEvent == InputEvent("", EMPTY, None, None, None)

\* ------------------------------------------------------------------------
\* State
\* ------------------------------------------------------------------------
VARIABLES
    gamepad,    \* self.gamepad: a handle, or None
    connected,  \* self.connected
    created,    \* number of VDS4Gamepad objects the driver has created
    resets,     \* number of reset() calls made on the handle in gamepad
    op,         \* the adapter method that ran last
    event,      \* its event argument (send_input)
    kwargs,     \* its keyword arguments (send_input)
    calls,      \* the calls it made on the driver and on time.sleep, in order
    err,        \* the exception it raised, or NoError
    sent        \* the send_input invocations it contains, the outer one first

vars == << gamepad, connected, created, resets, op, event, kwargs, calls, err,
           sent >>

Handles == 1 .. MaxHandles

Init ==
    /\ gamepad = None
    /\ connected = FALSE
    /\ created = 0
    /\ resets = 0
    /\ op = "__init__"
    /\ event = NoEvent
    /\ kwargs = NoKwargs
    /\ calls = << >>
    /\ err = NoError
    /\ sent = << >>

\* what vg.VDS4Gamepad() can do: raise, or create the next gamepad
Acquirable == {None} \cup (IF created < MaxHandles THEN {created + 1} ELSE {})

Connect ==
    \E acquired \in Acquirable :
        LET r == connect(gamepad, connected, acquired)
        IN  /\ gamepad' = r.gamepad
            /\ connected' = r.connected
            /\ err' = r.err
            /\ created' = IF acquired # None THEN acquired ELSE created
            /\ resets' = IF acquired # None THEN 0 ELSE resets
            /\ op' = "connect"
            /\ calls' = << >>
            /\ event' = NoEvent
            /\ kwargs' = NoKwargs
            /\ sent' = << >>

Send(e, kw) ==
    LET r == send_input(gamepad, connected, e, kw)
    IN  /\ op' = "send_input"
        /\ event' = e
        /\ kwargs' = kw
        /\ calls' = r.calls
        /\ err' = r.err
        /\ sent' = r.sent
        /\ UNCHANGED << gamepad, connected, created, resets >>

SendInput ==
    \/ \E e \in Events : Send(e, NoKwargs)
    \/ \E e \in DescribedEvents, kw \in Descriptors : Send(e, kw)

Disconnect ==
    LET r == disconnect(gamepad, connected)
    IN  /\ gamepad' = r.gamepad
        /\ connected' = r.connected
        /\ calls' = r.calls
        /\ resets' = resets + Cardinality({i \in DOMAIN r.calls : r.calls[i].op = "reset"})
        /\ op' = "disconnect"
        /\ err' = NoError
        /\ event' = NoEvent
        /\ kwargs' = NoKwargs
        /\ sent' = << >>
        /\ UNCHANGED created

Next == Connect \/ SendInput \/ Disconnect

Spec == Init /\ [][Next]_vars

\* ------------------------------------------------------------------------
\* Properties
\* ------------------------------------------------------------------------
\* the calls that act on the virtual device (time.sleep is not one)
DeviceOps ==
    {"press_button", "release_button", "left_joystick", "right_joystick",
     "left_trigger", "right_trigger", "directional_pad", "reset", "update"}

DeviceCalls(cs) == {i \in DOMAIN cs : cs[i].op \in DeviceOps}

Update(h) == Call("update", h, None, None, TRUE)

\* s names the table key k, letter case ignored
SameName(s, k) == Lower(s) = Lower(k)

InVocabulary(m, s) == \E k \in DOMAIN m : SameName(s, k)

\* C1: send_input on an adapter on which connect has never succeeded fails
\* with NotConnectedError and makes no call on the device, whatever the
\* event's kind and control.
C1_SendBeforeConnectFails ==
    (op = "send_input" /\ created = 0) =>
        (err = NotConnectedError /\ calls = << >>)

C1_Witness ==
    /\ op = "send_input"
    /\ created = 0
    /\ event.type = "TRIGGER"
    /\ event.control = Lower(R2)
    /\ err = NotConnectedError

\* C2: connected implies a handle is stored; every call on the device is made
\* while connected is true (and on the stored handle); send_input on an
\* adapter that is not connected makes no call on the device.
C2_CallsOnlyWhileConnected ==
    /\ connected => gamepad \in Handles
    /\ \A i \in DeviceCalls(calls) : calls[i].conn /\ calls[i].h = gamepad
    /\ (op = "send_input" /\ ~connected) => DeviceCalls(calls) = {}

C2_Witness ==
    /\ op = "send_input"
    /\ ~connected
    /\ gamepad \in Handles
    /\ event.type = "BUTTON"
    /\ event.control = CROSS
    /\ calls = << >>

\* C3: disconnect on a connected adapter makes exactly two calls, reset and
\* then update (commit), both on the stored handle and both while connected
\* is still true, and leaves connected false.
C3_DisconnectResetsThenCommits ==
    [][(connected /\ op' = "disconnect") =>
          /\ calls' = << Call("reset", gamepad, None, None, TRUE), Update(gamepad) >>
          /\ ~connected'
          /\ err' = NoError]_vars

C3_Witness ==
    /\ op = "disconnect"
    /\ ~connected
    /\ Len(calls) = 2
    /\ calls[1].op = "reset"
    /\ calls[2].op = "update"

\* C4: an adapter that is not connected stores no handle (disconnect releases
\* it).
C4_DisconnectedHoldsNoHandle == ~connected => gamepad = None

\* C5: disconnect on an adapter that is not connected raises nothing, makes
\* no call and changes no field; so after any number of disconnects the
\* handle acquired by the last connect has been reset exactly once.
C5_DisconnectIdempotent ==
    /\ [][(~connected /\ op' = "disconnect") =>
            /\ calls' = << >>
            /\ err' = NoError
            /\ ~connected'
            /\ gamepad' = gamepad
            /\ resets' = resets]_vars
    /\ [](op = "disconnect" => (~connected /\ err = NoError))
    /\ []((op = "disconnect" /\ gamepad \in Handles) => resets = 1)

C5_Witness ==
    /\ op = "disconnect"
    /\ calls = << >>
    /\ ~connected
    /\ gamepad \in Handles
    /\ resets = 1

\* C6: connect on a not-connected adapter whose acquisition fails raises
\* ConnectionError and leaves connected false and no handle stored.
C6_FailedConnectStoresNoHandle ==
    [][(~connected /\ op' = "connect" /\ err' # NoError) =>
          (err' = ConnectionError /\ ~connected' /\ gamepad' = None)]_vars

\* C7: a connect that succeeds stores a handle the driver has never handed
\* out before, different from the one stored until then, sets connected, and
\* makes no call (no reset, no commit) on the handle it replaces.
C7_ConnectStoresNewHandle ==
    [][(op' = "connect" /\ err' = NoError) =>
          /\ connected'
          /\ gamepad' \in Handles
          /\ gamepad' # gamepad
          /\ gamepad' \notin 1 .. created
          /\ calls' = << >>
          /\ resets' = 0]_vars

C7_Witness ==
    /\ op = "connect"
    /\ err = NoError
    /\ connected
    /\ gamepad = 2

\* C8: on a connected adapter a Button event naming a key B of the button
\* table in any letter case makes exactly two calls: press_button(code of B)
\* when pressed is true, release_button(code of B) when it is false, and then
\* one update.
C8_ButtonPressRelease ==
    \A B \in DOMAIN button_map :
        (/\ op = "send_input"
         /\ connected
         /\ event.type = "BUTTON"
         /\ SameName(event.control, B)
         /\ event.pressed \in {0, 1}) =>
            /\ err = NoError
            /\ calls = << Call(IF event.pressed = 1 THEN "press_button"
                                                    ELSE "release_button",
                               gamepad, button_map[B], None, TRUE),
                          Update(gamepad) >>

C8_Witness ==
    /\ op = "send_input"
    /\ event.type = "BUTTON"
    /\ event.control = Mixed(TRIANGLE)
    /\ event.pressed = 1
    /\ Len(calls) = 2
    /\ calls[1].op = "press_button"
    /\ calls[1].a = DS4_BUTTON_TRIANGLE

\* the table and the error of each recognized kind
TableOf(t) ==
    CASE t = "BUTTON" -> button_map
      [] t = "STICK" -> stick_map
      [] t = "TRIGGER" -> trigger_map
      [] t = "DPAD" -> dpad_map

InvalidOf(t) ==
    CASE t = "BUTTON" -> InvalidButton
      [] t = "STICK" -> InvalidStick
      [] t = "TRIGGER" -> InvalidTrigger
      [] t = "DPAD" -> InvalidDpad

Kinds == {"BUTTON", "STICK", "TRIGGER", "DPAD"}

\* C9: on a connected adapter an event of a recognized kind whose control is
\* in no letter case a key of that kind's table fails with the kind's
\* InvalidControlError, makes no call, and leaves connected and the handle
\* as they were.
C9_InvalidControlRejected ==
    [][(/\ op' = "send_input"
        /\ connected
        /\ event'.type \in Kinds
        /\ ~InVocabulary(TableOf(event'.type), event'.control)) =>
          /\ err' = InvalidOf(event'.type)
          /\ err' \in InvalidControlError
          /\ calls' = << >>
          /\ connected' = connected
          /\ gamepad' = gamepad]_vars

C9_Witness ==
    /\ op = "send_input"
    /\ connected
    /\ event.type = "TRIGGER"
    /\ event.control = L3
    /\ err = InvalidTrigger
    /\ calls = << >>

\* C10: on a connected adapter a Dpad event naming a key of the d-pad table
\* succeeds with exactly two calls: directional_pad with the key's code when
\* pressed is true, with DS4_BUTTON_DPAD_NONE when it is false, and then one
\* update.
C10_DpadSetsDirection ==
    (/\ op = "send_input"
     /\ connected
     /\ event.type = "DPAD"
     /\ event.control \in DOMAIN dpad_map
     /\ event.pressed \in {0, 1}) =>
        /\ err = NoError
        /\ calls = << Call("directional_pad", gamepad,
                           IF event.pressed = 1 THEN dpad_map[event.control]
                                                ELSE DS4_BUTTON_DPAD_NONE,
                           None, TRUE),
                      Update(gamepad) >>

\* t is the fraction num / den (den > 0) with its fractional part dropped
IsTruncation(t, num, den) ==
    IF num >= 0
    THEN t >= 0 /\ t * den <= num /\ num < (t + 1) * den
    ELSE t <= 0 /\ t * den >= num /\ num > (t - 1) * den

\* C11: on a connected adapter a Stick event naming a key K of the stick
\* table (LEFT_STICK, RIGHT_STICK) in any letter case, with x and y given,
\* first makes exactly one stick call, left_joystick for LEFT_STICK and
\* right_joystick for RIGHT_STICK, whose arguments are x * 255 and y * 255
\* each truncated toward zero (127 and -191 for x = 0.5, y = -0.75), and then
\* one update; without a deferred-release descriptor these are all its calls.
C11_StickScaledByTruncation ==
    \A K \in DOMAIN stick_map :
        (/\ op = "send_input"
         /\ connected
         /\ event.type = "STICK"
         /\ SameName(event.control, K)
         /\ event.value_x # None
         /\ event.value_y # None) =>
            /\ Len(calls) >= 2
            /\ calls[1].op = (IF K = LEFT_STICK THEN "left_joystick"
                                                ELSE "right_joystick")
            /\ calls[1].h = gamepad
            /\ IsTruncation(calls[1].a, event.value_x * 255, Denom)
            /\ IsTruncation(calls[1].b, event.value_y * 255, Denom)
            /\ (Denom = 4 /\ event.value_x = 2 /\ event.value_y = -3) =>
                   (calls[1].a = 127 /\ calls[1].b = -191)
            /\ calls[2] = Update(gamepad)
            /\ kwargs = NoKwargs => (Len(calls) = 2 /\ err = NoError)

C11_Witness ==
    /\ op = "send_input"
    /\ event = InputEvent("STICK", Lower(LEFT_STICK), 2, -3, None)
    /\ kwargs = NoKwargs
    /\ err = NoError
    /\ calls = << Call("left_joystick", gamepad, (2 * 255) \div Denom,
                       -((3 * 255) \div Denom), TRUE),
                  Update(gamepad) >>

\* C12: on a connected adapter a Trigger event naming L2 or R2, with x given,
\* makes exactly two calls: left_trigger for L2, right_trigger for R2, with
\* x * 255 truncated to an integer (255 for x = 1.0, 0 for x = 0.0), and then
\* one update; it makes no call for the other trigger.
C12_TriggerScaled ==
    \A K \in DOMAIN trigger_map :
        (/\ op = "send_input"
         /\ connected
         /\ event.type = "TRIGGER"
         /\ SameName(event.control, K)
         /\ event.value_x # None) =>
            /\ err = NoError
            /\ Len(calls) = 2
            /\ calls[1].op = (IF K = L2 THEN "left_trigger" ELSE "right_trigger")
            /\ calls[1].h = gamepad
            /\ IsTruncation(calls[1].a, event.value_x * 255, Denom)
            /\ event.value_x = Denom => calls[1].a = 255
            /\ event.value_x = 0 => calls[1].a = 0
            /\ calls[2] = Update(gamepad)

C12_Witness ==
    /\ op = "send_input"
    /\ event = InputEvent("TRIGGER", R2, Denom, None, None)
    /\ kwargs = NoKwargs
    /\ calls = << Call("right_trigger", gamepad, 255, None, TRUE),
                  Update(gamepad) >>

\* C13: on a connected adapter an event whose type is none of BUTTON, STICK,
\* TRIGGER, DPAD fails with UnknownEventKindError, makes no call, and leaves
\* connected and the handle as they were.
C13_UnknownKindRejected ==
    [][(/\ op' = "send_input"
        /\ connected
        /\ event'.type \notin Kinds) =>
          /\ err' = UnknownEventKindError
          /\ calls' = << >>
          /\ connected' = connected
          /\ gamepad' = gamepad]_vars

C13_Witness ==
    /\ op = "send_input"
    /\ connected
    /\ event.type = "button"
    /\ event.control = CROSS
    /\ err = UnknownEventKindError
    /\ calls = << >>

\* the event's control is a key of its kind's table, letter case ignored
Accepted(e) == e.type \in Kinds /\ InVocabulary(TableOf(e.type), e.control)

\* the calls that set one control of the device
ActionOps ==
    {"press_button", "release_button", "left_joystick", "right_joystick",
     "left_trigger", "right_trigger", "directional_pad"}

StickOps == {"left_joystick", "right_joystick"}

Sleeps(cs) == {i \in DOMAIN cs : cs[i].op = "sleep"}

\* a Stick event the stick handler accepts, sent with a descriptor to a
\* connected adapter
StickWithRelease ==
    /\ op = "send_input"
    /\ connected
    /\ event.type = "STICK"
    /\ InVocabulary(stick_map, event.control)
    /\ kwargs # NoKwargs

C15_ReleaseErrorPropagates ==
    [][(/\ StickWithRelease'
        /\ ~Accepted(kwargs'[1].input_release_event)) =>
          LET R == kwargs'[1].input_release_event
          IN  /\ err' = (IF R.type \in Kinds THEN InvalidOf(R.type)
                                            ELSE UnknownEventKindError)
              /\ Len(calls') = 3
              /\ calls'[1].op \in StickOps
              /\ calls'[1].h = gamepad
              /\ calls'[2] = Update(gamepad)
              /\ calls'[3].op = "sleep"
              /\ Len(sent') = 2
              /\ connected' = connected
              /\ gamepad' = gamepad]_vars

C15_Witness ==
    /\ op = "send_input"
    /\ connected
    /\ event = InputEvent("STICK", LEFT_STICK, 2, -3, None)
    /\ kwargs = CallbackDict(1, InputEvent("STICK", LEFT, 0, 0, None))
    /\ err = InvalidStick
    /\ calls = << Call("left_joystick", gamepad, (2 * 255) \div Denom,
                       -((3 * 255) \div Denom), TRUE),
                  Update(gamepad),
                  Call("sleep", None, 1, None, TRUE) >>

\* C16: one send_input call contains at most two send_input invocations and
\* at most one sleep; a Button, Trigger or Dpad event sent with a descriptor
\* is the only invocation, with no sleep and, when it succeeds, its own
\* action call and one update; an accepted stick event sent with a
\* descriptor is followed by exactly one invocation, of the release event
\* without descriptor, also when the release is itself a stick event.
C16_AtMostOneFollowUp ==
    (op = "send_input" /\ connected) =>
        /\ Len(sent) \in {1, 2}
        /\ Cardinality(Sleeps(calls)) <= 1
        /\ kwargs = NoKwargs => (Len(sent) = 1 /\ Sleeps(calls) = {})
        /\ (kwargs # NoKwargs /\ event.type # "STICK") =>
               /\ Len(sent) = 1
               /\ Sleeps(calls) = {}
               /\ err = NoError =>
                      /\ Len(calls) = 2
                      /\ calls[1].op \in ActionOps
                      /\ calls[2] = Update(gamepad)
               /\ err # NoError => calls = << >>
        /\ StickWithRelease =>
               /\ Len(sent) = 2
               /\ sent[2].event = kwargs[1].input_release_event
               /\ sent[2].kwargs = NoKwargs
               /\ Cardinality(Sleeps(calls)) = 1
               /\ Cardinality({i \in DOMAIN calls : calls[i].op \in StickOps}) <= 2

C16_Witness ==
    /\ op = "send_input"
    /\ connected
    /\ event = InputEvent("STICK", Lower(RIGHT_STICK), Denom, None, None)
    /\ kwargs = CallbackDict(1, InputEvent("STICK", LEFT_STICK, 0, 0, None))
    /\ Len(sent) = 2
    /\ sent[2].kwargs = NoKwargs
    /\ Cardinality(Sleeps(calls)) = 1
    /\ Len(calls) = 5

====
